---------------------------- MODULE Spec2Model ----------------------------
(***************************************************************************)
(* A model of the shell AST of package sh (ast.go) and of its text        *)
(* reconstruction: the String methods of the node types and the joining   *)
(* helpers stringerJoin, nodeJoin, stmtJoinWithEnd, stmtJoin, stmtList.   *)
(*                                                                         *)
(* Text is a sequence of one-character strings, so that substrings,       *)
(* prefixes and suffixes of a render are things a check can look at.      *)
(***************************************************************************)
EXTENDS Integers, Sequences, FiniteSets, TLC

(***************************************************************************)
(* Bounds of the model.                                                    *)
(***************************************************************************)
\* longest statement / word / assign / redirect / pattern-list sequence drawn
MaxLen == 2

(***************************************************************************)
(* Text helpers.                                                           *)
(***************************************************************************)
EndsWith(t, suf) ==
    /\ Len(t) >= Len(suf)
    /\ SubSeq(t, Len(t) - Len(suf) + 1, Len(t)) = suf

StartsWith(t, pre) ==
    /\ Len(t) >= Len(pre)
    /\ SubSeq(t, 1, Len(pre)) = pre

\* the positions of t at which an occurrence of sub starts
Occurrences(t, sub) ==
    {i \in 1..(Len(t) - Len(sub) + 1) : SubSeq(t, i, i + Len(sub) - 1) = sub}

Count(t, sub) == Cardinality(Occurrences(t, sub))

Contains(t, sub) == Occurrences(t, sub) # {}

\* all sequences over S of length at most n
RECURSIVE SeqsOfLen(_, _)
SeqsOfLen(S, n) ==
    IF n = 0 THEN {<<>>}
    ELSE {Append(q, x) : q \in SeqsOfLen(S, n - 1), x \in S}

SeqsUpTo(S, n) == UNION {SeqsOfLen(S, k) : k \in 0..n}

(***************************************************************************)
(* The text of the keyword and operator tokens.  Token and its String     *)
(* method are declared in another file of the package; ast.go only names  *)
(* the tokens.                                                             *)
(***************************************************************************)
TokenString(tok) ==
    CASE tok = "BANG"     -> <<"!">>
      [] tok = "AND"      -> <<"&">>
      [] tok = "LAND"     -> <<"&", "&">>
      [] tok = "OR"       -> <<"|">>
      [] tok = "GTR"      -> <<">">>
      [] tok = "HEREDOC"  -> <<"<", "<">>
      [] tok = "DHEREDOC" -> <<"<", "<", "-">>
      [] tok = "IF"       -> <<"i", "f">>
      [] tok = "THEN"     -> <<"t", "h", "e", "n">>
      [] tok = "ELIF"     -> <<"e", "l", "i", "f">>
      [] tok = "ELSE"     -> <<"e", "l", "s", "e">>
      [] tok = "FI"       -> <<"f", "i">>
      [] tok = "WHILE"    -> <<"w", "h", "i", "l", "e">>
      [] tok = "UNTIL"    -> <<"u", "n", "t", "i", "l">>
      [] tok = "FOR"      -> <<"f", "o", "r">>
      [] tok = "IN"       -> <<"i", "n">>
      [] tok = "DO"       -> <<"d", "o">>
      [] tok = "DONE"     -> <<"d", "o", "n", "e">>
      [] tok = "CASE"     -> <<"c", "a", "s", "e">>
      [] tok = "ESAC"     -> <<"e", "s", "a", "c">>
      [] tok = "FUNCTION" -> <<"f", "u", "n", "c", "t", "i", "o", "n">>

NL == <<"\n">>
SEMI == <<";", " ">>
SP == <<" ">>
DQ == <<"\"">>
\* the backquote character, written as an atom of its own
BQ == <<"backquote">>

(***************************************************************************)
(* Positions.  Pos is declared in another file of the package; here a     *)
(* position is a natural number and Pos{} is 0.                            *)
(***************************************************************************)
ZeroPos == 0

\* the goroutines that call into the package at the same time
Goroutines == {1, 2}

(***************************************************************************)
(* The node types, as records tagged with the Go type's name.  Of the     *)
(* position fields only those the modelled Pos methods read are kept      *)
(* (Lit.ValuePos, Stmt.Position); no String method reads a position.      *)
(***************************************************************************)
NoNode == [kind |-> "nil"]

Lit(v) == [kind |-> "Lit", ValuePos |-> 1, Value |-> v]
SglQuoted(v) == [kind |-> "SglQuoted", Value |-> v]
DblQuoted(ps) == [kind |-> "DblQuoted", Parts |-> ps]
ParamExp(short, t) == [kind |-> "ParamExp", Short |-> short, Text |-> t]
ArithmExp(ws) == [kind |-> "ArithmExp", Words |-> ws]
CmdSubst(bq, ss) == [kind |-> "CmdSubst", Backquotes |-> bq, Stmts |-> ss]
Word(ps) == [kind |-> "Word", Parts |-> ps]
Assign(n, v) == [kind |-> "Assign", Name |-> n, Value |-> v]
Redirect(n, op, w) == [kind |-> "Redirect", N |-> n, Op |-> op, Word |-> w]
Command(args) == [kind |-> "Command", Args |-> args]
Subshell(ss) == [kind |-> "Subshell", Stmts |-> ss]
Block(ss) == [kind |-> "Block", Stmts |-> ss]
Elif(c, t) == [kind |-> "Elif", Conds |-> c, ThenStmts |-> t]
IfStmt(c, t, el, e) ==
    [kind |-> "IfStmt", Conds |-> c, ThenStmts |-> t, Elifs |-> el,
     ElseStmts |-> e]
WhileStmt(c, d) == [kind |-> "WhileStmt", Conds |-> c, DoStmts |-> d]
UntilStmt(c, d) == [kind |-> "UntilStmt", Conds |-> c, DoStmts |-> d]
ForStmt(n, wl, d) ==
    [kind |-> "ForStmt", Name |-> n, WordList |-> wl, DoStmts |-> d]
BinaryExpr(x, op, y) == [kind |-> "BinaryExpr", Op |-> op, X |-> x, Y |-> y]
FuncDecl(bash, n, b) ==
    [kind |-> "FuncDecl", BashStyle |-> bash, Name |-> n, Body |-> b]
PatternList(ps, ss) == [kind |-> "PatternList", Patterns |-> ps, Stmts |-> ss]
CaseStmt(w, l) == [kind |-> "CaseStmt", Word |-> w, List |-> l]
Stmt(node, neg, as, rs, bg) ==
    [kind |-> "Stmt", Node |-> node, Position |-> 1, Negated |-> neg,
     Assigns |-> as, Redirs |-> rs, Background |-> bg]
File(ss) == [kind |-> "File", Stmts |-> ss]

(***************************************************************************)
(* Rendering.                                                              *)
(***************************************************************************)
RECURSIVE String(_)
RECURSIVE JoinFrom(_, _, _)
RECURSIVE stmtJoinLoop(_, _, _, _, _)

\* the loop of stringerJoin and of nodeJoin, from element i on
JoinFrom(strs, sep, i) ==
    IF i > Len(strs) THEN <<>>
    ELSE (IF i > 1 THEN sep ELSE <<>>) \o String(strs[i]) \o JoinFrom(strs, sep, i + 1)

stringerJoin(strs, sep) == JoinFrom(strs, sep, 1)

nodeJoin(ns, sep) == JoinFrom(ns, sep, 1)

wordJoin(words, sep) == nodeJoin(words, sep)

\* a mutant of newlineAfter: only the last redirect is looked at
newlineAfter_LastOnly(s) ==
    /\ Len(s.Redirs) > 0
    /\ \/ s.Redirs[Len(s.Redirs)].Op = "HEREDOC"
       \/ s.Redirs[Len(s.Redirs)].Op = "DHEREDOC"

newlineAfter(s) ==
    \E k \in 1..Len(s.Redirs) :
        s.Redirs[k].Op = "HEREDOC" \/ s.Redirs[k].Op = "DHEREDOC"

\* what one iteration of stmtJoinWithEnd's loop writes before statement i
stmtSep(newline, i) ==
    IF newline THEN NL
    ELSE IF i > 1 THEN SEMI
    ELSE <<>>

\* what stmtJoinWithEnd writes after the loop
stmtEnd(newline, end) == IF newline /\ end THEN NL ELSE <<>>

\* stmtJoinWithEnd's loop from statement i on, with buffer b and flag newline
stmtJoinLoop(stmts, end, i, newline, b) ==
    IF i > Len(stmts) THEN b \o stmtEnd(newline, end)
    ELSE stmtJoinLoop(stmts, end, i + 1, newlineAfter(stmts[i]),
                      b \o stmtSep(newline, i) \o String(stmts[i]))

stmtJoinWithEnd(stmts, end) == stmtJoinLoop(stmts, end, 1, FALSE, <<>>)

stmtJoin(stmts) == stmtJoinWithEnd(stmts, TRUE)

\* a mutant of stmtList: the trailing "; " is written after a newline too
stmtList_AlwaysSemi(stmts) ==
    IF Len(stmts) = 0 THEN SEMI
    ELSE SP \o stmtJoin(stmts) \o SEMI

stmtList(stmts) ==
    IF Len(stmts) = 0 THEN SEMI
    ELSE LET s == stmtJoin(stmts)
         IN  IF Len(s) > 0 /\ s[Len(s)] = "\n" THEN SP \o s
             ELSE SP \o s \o SEMI

\* a mutant of StmtStrs: the redirects are appended before the assignments
StmtStrs_RedirsFirst(s) ==
    (IF s.Negated THEN <<[kind |-> "Token", tok |-> "BANG"]>> ELSE <<>>)
    \o (IF s.Node # NoNode THEN <<s.Node>> ELSE <<>>)
    \o s.Redirs
    \o s.Assigns
    \o (IF s.Background THEN <<[kind |-> "Token", tok |-> "AND"]>> ELSE <<>>)

\* the stringers Stmt.String collects, in the order it appends them
StmtStrs(s) ==
    (IF s.Negated THEN <<[kind |-> "Token", tok |-> "BANG"]>> ELSE <<>>)
    \o (IF s.Node # NoNode THEN <<s.Node>> ELSE <<>>)
    \o s.Assigns
    \o s.Redirs
    \o (IF s.Background THEN <<[kind |-> "Token", tok |-> "AND"]>> ELSE <<>>)

StmtString(s) == stringerJoin(StmtStrs(s), SP)

\* a mutant of FileString: the terminating form is asked for
FileString_End(f) == stmtJoinWithEnd(f.Stmts, TRUE)

FileString(f) == stmtJoinWithEnd(f.Stmts, FALSE)

AssignString(a) == String(a.Name) \o <<"=">> \o String(a.Value)

RedirectString(r) == String(r.N) \o TokenString(r.Op) \o String(r.Word)

\* a mutant of SubshellString: no special case for the empty sequence
SubshellString_NoSpecial(s) == <<"(">> \o stmtJoin(s.Stmts) \o <<")">>

SubshellString(s) ==
    IF Len(s.Stmts) = 0 THEN <<"(", " ", ")">>
    ELSE <<"(">> \o stmtJoin(s.Stmts) \o <<")">>

BlockString(b) == <<"{">> \o stmtList(b.Stmts) \o <<"}">>

ElifString(e) ==
    TokenString("ELIF") \o stmtList(e.Conds) \o TokenString("THEN")
    \o stmtList(e.ThenStmts)

IfStmtString(s) ==
    TokenString("IF") \o stmtList(s.Conds) \o TokenString("THEN")
    \o stmtList(s.ThenStmts)
    \o JoinFrom(s.Elifs, <<>>, 1)
    \o (IF Len(s.ElseStmts) > 0
        THEN TokenString("ELSE") \o stmtList(s.ElseStmts) ELSE <<>>)
    \o TokenString("FI")

WhileStmtString(w) ==
    TokenString("WHILE") \o stmtList(w.Conds) \o TokenString("DO")
    \o stmtList(w.DoStmts) \o TokenString("DONE")

UntilStmtString(u) ==
    TokenString("UNTIL") \o stmtList(u.Conds) \o TokenString("DO")
    \o stmtList(u.DoStmts) \o TokenString("DONE")

\* a mutant of ForIn: the in clause is written for an empty WordList too
ForIn_Always(f) ==
    IF Len(f.WordList) >= 0
    THEN SP \o TokenString("IN") \o SP \o wordJoin(f.WordList, SP)
    ELSE <<>>

\* the in clause of ForStmt.String
ForIn(f) ==
    IF Len(f.WordList) > 0
    THEN SP \o TokenString("IN") \o SP \o wordJoin(f.WordList, SP)
    ELSE <<>>

ForStmtString(f) ==
    TokenString("FOR") \o SP \o String(f.Name)
    \o ForIn(f)
    \o SEMI \o TokenString("DO") \o stmtList(f.DoStmts) \o TokenString("DONE")

BinaryExprString(b) ==
    String(b.X) \o SP \o TokenString(b.Op) \o SP \o String(b.Y)

FuncDeclString(f) ==
    IF f.BashStyle
    THEN TokenString("FUNCTION") \o SP \o String(f.Name) \o <<"(", ")", " ">>
         \o String(f.Body)
    ELSE String(f.Name) \o <<"(", ")", " ">> \o String(f.Body)

CmdSubstString(c) ==
    IF c.Backquotes THEN BQ \o stmtJoin(c.Stmts) \o BQ
    ELSE <<"$", "(">> \o stmtJoin(c.Stmts) \o <<")">>

ParamExpString(p) ==
    IF p.Short THEN <<"$">> \o p.Text
    ELSE <<"$", "{">> \o p.Text \o <<"}">>

\* a mutant of CaseSep: the first pattern list gets the separator too
CaseSep_NoFirst(i) == <<";", ";", " ">>

\* what CaseStmt.String writes before pattern list i
CaseSep(i) == IF i = 1 THEN SP ELSE <<";", ";", " ">>

RECURSIVE CaseLoop(_, _)
CaseLoop(list, i) ==
    IF i > Len(list) THEN <<>>
    ELSE CaseSep(i) \o String(list[i]) \o CaseLoop(list, i + 1)

CaseStmtString(c) ==
    TokenString("CASE") \o SP \o String(c.Word) \o SP \o TokenString("IN")
    \o CaseLoop(c.List, 1)
    \o SEMI \o TokenString("ESAC")

PatternListString(p) ==
    wordJoin(p.Patterns, <<" ", "|", " ">>) \o <<")", " ">> \o stmtJoin(p.Stmts)

\* the String method of a value, by its dynamic type
String(n) ==
    CASE n.kind = "Token"       -> TokenString(n.tok)
      [] n.kind = "Lit"         -> n.Value
      [] n.kind = "SglQuoted"   -> <<"'">> \o n.Value \o <<"'">>
      [] n.kind = "DblQuoted"   -> DQ \o nodeJoin(n.Parts, <<>>) \o DQ
      [] n.kind = "ParamExp"    -> ParamExpString(n)
      [] n.kind = "ArithmExp"   ->
            <<"$", "(", "(">> \o wordJoin(n.Words, SP) \o <<")", ")">>
      [] n.kind = "CmdSubst"    -> CmdSubstString(n)
      [] n.kind = "Word"        -> nodeJoin(n.Parts, <<>>)
      [] n.kind = "Assign"      -> AssignString(n)
      [] n.kind = "Redirect"    -> RedirectString(n)
      [] n.kind = "Command"     -> wordJoin(n.Args, SP)
      [] n.kind = "Subshell"    -> SubshellString(n)
      [] n.kind = "Block"       -> BlockString(n)
      [] n.kind = "Elif"        -> ElifString(n)
      [] n.kind = "IfStmt"      -> IfStmtString(n)
      [] n.kind = "WhileStmt"   -> WhileStmtString(n)
      [] n.kind = "UntilStmt"   -> UntilStmtString(n)
      [] n.kind = "ForStmt"     -> ForStmtString(n)
      [] n.kind = "BinaryExpr"  -> BinaryExprString(n)
      [] n.kind = "FuncDecl"    -> FuncDeclString(n)
      [] n.kind = "CaseStmt"    -> CaseStmtString(n)
      [] n.kind = "PatternList" -> PatternListString(n)
      [] n.kind = "Stmt"        -> StmtString(n)
      [] n.kind = "File"        -> FileString(n)

(***************************************************************************)
(* The trees the calls are made on.                                        *)
(***************************************************************************)
LitA == Lit(<<"a">>)
LitTwo == Lit(<<"2">>)
\* the zero Lit: an absent file descriptor, an unset name
NoLit == Lit(<<>>)
LitI == Lit(<<"i">>)

WordA == Word(<<LitA>>)
WordEmpty == Word(<<>>)
WordQ == Word(<<SglQuoted(<<"a">>)>>)

PlainStmt(node) == Stmt(node, FALSE, <<>>, <<>>, FALSE)

sCmd == PlainStmt(Command(<<WordA>>))
sEmpty == PlainStmt(NoNode)
sHere ==
    Stmt(Command(<<WordA>>), FALSE, <<>>, <<Redirect(NoLit, "HEREDOC", WordA)>>, FALSE)
\* the heredoc is not the last redirect
sDHere ==
    Stmt(Command(<<WordA>>), FALSE, <<>>,
         <<Redirect(NoLit, "DHEREDOC", WordA), Redirect(NoLit, "GTR", WordA)>>, FALSE)
sRedir ==
    Stmt(Command(<<WordA>>), FALSE, <<>>, <<Redirect(LitTwo, "GTR", WordA)>>, FALSE)

\* statements without statements inside
S0 == {sCmd, sEmpty, sHere, sDHere, sRedir}

\* a command whose words are made of every kind of fragment
sWords ==
    PlainStmt(Command(<<
        Word(<<LitA, SglQuoted(<<"a">>),
               DblQuoted(<<LitA, ParamExp(TRUE, <<"a">>)>>)>>),
        Word(<<ParamExp(FALSE, <<"a">>), ArithmExp(<<WordA, WordA>>)>>),
        Word(<<CmdSubst(FALSE, <<sCmd>>), CmdSubst(TRUE, <<sHere>>)>>)>>))

\* the heredoc is on the right operand, the enclosing statement has none
sAndHere == PlainStmt(BinaryExpr(sCmd, "LAND", sHere))
sHereAnd == PlainStmt(BinaryExpr(sHere, "OR", sCmd))
\* the heredoc is on the function's body
sFuncHere == PlainStmt(FuncDecl(FALSE, LitA, sHere))
sFuncBlock == PlainStmt(FuncDecl(TRUE, LitA, PlainStmt(Block(<<sCmd>>))))
sSubHere == PlainStmt(Subshell(<<sCmd, sHere>>))
sBlockHere == PlainStmt(Block(<<sHere>>))
sBlockEmpty == Stmt(Block(<<>>), TRUE, <<>>, <<>>, TRUE)
sIf ==
    PlainStmt(IfStmt(<<sCmd>>, <<sHere>>, <<Elif(<<sCmd>>, <<>>)>>, <<sCmd>>))
sWhile == PlainStmt(WhileStmt(<<sCmd>>, <<sCmd, sCmd>>))
sCase1 == PlainStmt(CaseStmt(WordA, <<PatternList(<<WordA>>, <<sCmd>>)>>))
sCase2 ==
    PlainStmt(CaseStmt(WordA, <<PatternList(<<WordA>>, <<>>),
                               PatternList(<<WordA>>, <<sCmd>>)>>))
sForIn == PlainStmt(ForStmt(LitA, <<WordA>>, <<sCmd>>))

\* statements with statements inside
S1 ==
    S0 \cup {sWords, sAndHere, sHereAnd, sFuncHere, sFuncBlock, sSubHere,
             sBlockHere, sBlockEmpty, sIf, sWhile, sCase1, sForIn}

StmtSeqs == SeqsUpTo(S1, MaxLen)

\* the statements Stmt.String is called on
StmtNodes ==
    {NoNode, Command(<<WordA, WordA>>), Command(<<>>), Block(<<>>),
     Subshell(<<sHere>>)}
AssignSeqs == SeqsUpTo({Assign(LitA, WordA), Assign(LitA, WordEmpty)}, MaxLen)
RedirSeqs ==
    SeqsUpTo({Redirect(NoLit, "GTR", WordA), Redirect(LitTwo, "HEREDOC", WordA)},
             MaxLen)

\* the statement sequences of conditions and bodies
SBody == {sCmd, sHere}
BodySeqs == SeqsUpTo(SBody, MaxLen)
ElifSeqs ==
    {<<>>, <<Elif(<<sCmd>>, <<sHere>>)>>,
     <<Elif(<<>>, <<>>), Elif(<<sHere>>, <<sCmd>>)>>}

\* the for loops
ForNames == {LitA, LitI}
ForWordLists == SeqsUpTo({WordA, WordQ}, MaxLen)
ForBodies == SeqsUpTo({sCmd, sHere, sEmpty, sCase1, sForIn}, MaxLen)

\* the case statements
CaseWords == {WordA, WordQ}
CasePatterns == {<<WordA>>, <<WordA, WordQ>>}
CaseArms ==
    {<<>>, <<sCmd>>, <<sCmd, sCmd>>, <<sHere>>, <<sCase1>>, <<sCase2>>}
PatternLists == {PatternList(ps, ss) : ps \in CasePatterns, ss \in CaseArms}
CaseLists == SeqsUpTo(PatternLists, MaxLen)

\* the receivers and arguments of the calls
FileInputs == {File(ss) : ss \in StmtSeqs}
StmtsInputs == {[kind |-> "stmts", Stmts |-> ss] : ss \in StmtSeqs}
StmtInputs ==
    {Stmt(n, neg, as, rs, bg) :
        n \in StmtNodes, neg \in BOOLEAN, as \in AssignSeqs, rs \in RedirSeqs,
        bg \in BOOLEAN}
SubshellInputs == {Subshell(ss) : ss \in StmtSeqs}
BlockInputs == {Block(ss) : ss \in StmtSeqs}
IfInputs ==
    {IfStmt(c, t, el, e) :
        c \in BodySeqs, t \in BodySeqs, el \in ElifSeqs, e \in BodySeqs}
WhileInputs == {WhileStmt(c, d) : c \in BodySeqs, d \in BodySeqs}
UntilInputs == {UntilStmt(c, d) : c \in BodySeqs, d \in BodySeqs}
ForInputs ==
    {ForStmt(n, wl, d) : n \in ForNames, wl \in ForWordLists, d \in ForBodies}
CaseInputs == {CaseStmt(w, l) : w \in CaseWords, l \in CaseLists}

Receivers ==
    FileInputs \cup StmtInputs \cup SubshellInputs \cup BlockInputs \cup IfInputs
    \cup WhileInputs \cup UntilInputs \cup ForInputs \cup CaseInputs

(***************************************************************************)
(* The state.                                                              *)
(*                                                                         *)
(* Of one call at a time: the receiver or argument of the call (arg),     *)
(* stmtJoinWithEnd's end argument (flag), the call made on it (op, "none" *)
(* before the call) and the text the call returned (out).                 *)
(*                                                                         *)
(* Of calls made by several goroutines at once: the tree they share       *)
(* (tree), the package variable defaultPos, and for each goroutine where  *)
(* it stands (pc), the arguments of its stmtJoinWithEnd call (callStmts,  *)
(* callEnd), the locals of that call (idx for the loop index i, newline,  *)
(* and the buffers b) and what its call returned (ret).                   *)
(***************************************************************************)
VARIABLES op, arg, flag, out,
          tree, defaultPos, pc, callStmts, callEnd, idx, newline, b, ret

seqVars == <<op, arg, flag, out>>
concVars == <<tree, defaultPos, pc, callStmts, callEnd, idx, newline, b, ret>>
vars == <<op, arg, flag, out,
          tree, defaultPos, pc, callStmts, callEnd, idx, newline, b, ret>>

NoCalls ==
    /\ pc = [g \in Goroutines |-> "idle"]
    /\ callStmts = [g \in Goroutines |-> <<>>]
    /\ callEnd = [g \in Goroutines |-> FALSE]
    /\ idx = [g \in Goroutines |-> 0]
    /\ newline = [g \in Goroutines |-> FALSE]
    /\ b = [g \in Goroutines |-> <<>>]
    /\ ret = [g \in Goroutines |-> <<"-">>]

Init ==
    /\ op = "none"
    /\ out = <<>>
    /\ \/ arg \in Receivers /\ flag = FALSE
       \/ arg \in StmtsInputs /\ flag \in BOOLEAN
    /\ tree = File(<<>>)
    /\ defaultPos = ZeroPos
    /\ NoCalls

CallFileString ==
    /\ op = "none" /\ arg.kind = "File"
    /\ op' = "File"
    /\ out' = FileString(arg)
    /\ UNCHANGED <<arg, flag>>
    /\ UNCHANGED concVars

CallStmtJoinWithEnd ==
    /\ op = "none" /\ arg.kind = "stmts"
    /\ op' = "stmtJoinWithEnd"
    /\ out' = stmtJoinWithEnd(arg.Stmts, flag)
    /\ UNCHANGED <<arg, flag>>
    /\ UNCHANGED concVars

CallStmtList ==
    /\ op = "none" /\ arg.kind = "stmts" /\ ~flag
    /\ op' = "stmtList"
    /\ out' = stmtList(arg.Stmts)
    /\ UNCHANGED <<arg, flag>>
    /\ UNCHANGED concVars

CallStmtString ==
    /\ op = "none" /\ arg.kind = "Stmt"
    /\ op' = "Stmt"
    /\ out' = StmtString(arg)
    /\ UNCHANGED <<arg, flag>>
    /\ UNCHANGED concVars

CallSubshellString ==
    /\ op = "none" /\ arg.kind = "Subshell"
    /\ op' = "Subshell"
    /\ out' = SubshellString(arg)
    /\ UNCHANGED <<arg, flag>>
    /\ UNCHANGED concVars

CallBlockString ==
    /\ op = "none" /\ arg.kind = "Block"
    /\ op' = "Block"
    /\ out' = BlockString(arg)
    /\ UNCHANGED <<arg, flag>>
    /\ UNCHANGED concVars

CallIfStmtString ==
    /\ op = "none" /\ arg.kind = "IfStmt"
    /\ op' = "IfStmt"
    /\ out' = IfStmtString(arg)
    /\ UNCHANGED <<arg, flag>>
    /\ UNCHANGED concVars

CallWhileStmtString ==
    /\ op = "none" /\ arg.kind = "WhileStmt"
    /\ op' = "WhileStmt"
    /\ out' = WhileStmtString(arg)
    /\ UNCHANGED <<arg, flag>>
    /\ UNCHANGED concVars

CallUntilStmtString ==
    /\ op = "none" /\ arg.kind = "UntilStmt"
    /\ op' = "UntilStmt"
    /\ out' = UntilStmtString(arg)
    /\ UNCHANGED <<arg, flag>>
    /\ UNCHANGED concVars

CallForStmtString ==
    /\ op = "none" /\ arg.kind = "ForStmt"
    /\ op' = "ForStmt"
    /\ out' = ForStmtString(arg)
    /\ UNCHANGED <<arg, flag>>
    /\ UNCHANGED concVars

CallCaseStmtString ==
    /\ op = "none" /\ arg.kind = "CaseStmt"
    /\ op' = "CaseStmt"
    /\ out' = CaseStmtString(arg)
    /\ UNCHANGED <<arg, flag>>
    /\ UNCHANGED concVars

Next ==
    \/ CallFileString
    \/ CallStmtJoinWithEnd
    \/ CallStmtList
    \/ CallStmtString
    \/ CallSubshellString
    \/ CallBlockString
    \/ CallIfStmtString
    \/ CallWhileStmtString
    \/ CallUntilStmtString
    \/ CallForStmtString
    \/ CallCaseStmtString

Spec == Init /\ [][Next]_vars

(***************************************************************************)
(* Calls made by several goroutines at once on one tree.  A goroutine     *)
(* renders the File or the statements of a Subshell or Block of it, or    *)
(* asks a statement or its command for its position.  A step is one       *)
(* iteration of stmtJoinWithEnd's loop.                                    *)
(***************************************************************************)
\* a mutant of BufOf: the calls write to one buffer
BufOf_Shared(g) == 1

\* the buffer of goroutine g's call: a local of the call
BufOf(g) == g

wordFirstPos(ws, dflt) ==
    IF Len(ws) = 0 THEN dflt
    ELSE IF Len(ws[1].Parts) = 0 THEN dflt
    ELSE ws[1].Parts[1].ValuePos

\* Stmt.Pos and Command.Pos
Pos(n, dflt) ==
    IF n.kind = "Stmt" THEN n.Position ELSE wordFirstPos(n.Args, dflt)

sNoArgs == PlainStmt(Command(<<>>))
sEmptyWord == PlainStmt(Command(<<WordEmpty, WordA>>))
ConcStmts == {sCmd, sHere, sNoArgs, sEmptyWord, sSubHere, sBlockHere}
ConcTrees == {File(ss) : ss \in SeqsUpTo(ConcStmts, MaxLen) \ {<<>>}}

InitConc ==
    /\ op = "none"
    /\ arg = NoNode
    /\ flag = FALSE
    /\ out = <<>>
    /\ tree \in ConcTrees
    /\ defaultPos = ZeroPos
    /\ NoCalls

\* File.String: the call of stmtJoinWithEnd on the statements of the File
StartFile(g) ==
    /\ pc[g] = "idle"
    /\ pc' = [pc EXCEPT ![g] = "loop"]
    /\ callStmts' = [callStmts EXCEPT ![g] = tree.Stmts]
    /\ callEnd' = [callEnd EXCEPT ![g] = FALSE]
    /\ idx' = [idx EXCEPT ![g] = 1]
    /\ newline' = [newline EXCEPT ![g] = FALSE]
    /\ b' = [b EXCEPT ![BufOf(g)] = <<>>]
    /\ UNCHANGED <<tree, defaultPos, ret>>
    /\ UNCHANGED seqVars

\* stmtJoin on the statements of a Subshell or Block of the File
StartInner(g) ==
    /\ pc[g] = "idle"
    /\ \E k \in 1..Len(tree.Stmts) :
          /\ tree.Stmts[k].Node.kind \in {"Subshell", "Block"}
          /\ callStmts' = [callStmts EXCEPT ![g] = tree.Stmts[k].Node.Stmts]
    /\ pc' = [pc EXCEPT ![g] = "loop"]
    /\ callEnd' = [callEnd EXCEPT ![g] = TRUE]
    /\ idx' = [idx EXCEPT ![g] = 1]
    /\ newline' = [newline EXCEPT ![g] = FALSE]
    /\ b' = [b EXCEPT ![BufOf(g)] = <<>>]
    /\ UNCHANGED <<tree, defaultPos, ret>>
    /\ UNCHANGED seqVars

\* one iteration of stmtJoinWithEnd's loop
LoopStep(g) ==
    /\ pc[g] = "loop"
    /\ idx[g] <= Len(callStmts[g])
    /\ b' = [b EXCEPT ![BufOf(g)] =
                 @ \o stmtSep(newline[g], idx[g]) \o String(callStmts[g][idx[g]])]
    /\ newline' = [newline EXCEPT ![g] = newlineAfter(callStmts[g][idx[g]])]
    /\ idx' = [idx EXCEPT ![g] = @ + 1]
    /\ UNCHANGED <<tree, defaultPos, pc, callStmts, callEnd, ret>>
    /\ UNCHANGED seqVars

\* the end of stmtJoinWithEnd: the trailing newline and the return
LoopExit(g) ==
    /\ pc[g] = "loop"
    /\ idx[g] > Len(callStmts[g])
    /\ ret' = [ret EXCEPT ![g] = b[BufOf(g)] \o stmtEnd(newline[g], callEnd[g])]
    /\ pc' = [pc EXCEPT ![g] = "done"]
    /\ UNCHANGED <<tree, defaultPos, callStmts, callEnd, idx, newline, b>>
    /\ UNCHANGED seqVars

\* Pos on statement k of the File, or on its Command
CallPos(g) ==
    /\ pc[g] = "idle"
    /\ \E k \in 1..Len(tree.Stmts) :
          \E n \in {tree.Stmts[k]}
                   \cup (IF tree.Stmts[k].Node.kind = "Command"
                         THEN {tree.Stmts[k].Node} ELSE {}) :
              /\ callStmts' = [callStmts EXCEPT ![g] = <<n>>]
              /\ ret' = [ret EXCEPT ![g] = <<Pos(n, defaultPos)>>]
    /\ pc' = [pc EXCEPT ![g] = "pos"]
    /\ UNCHANGED <<tree, defaultPos, callEnd, idx, newline, b>>
    /\ UNCHANGED seqVars

NextConc ==
    \E g \in Goroutines :
        \/ StartFile(g)
        \/ StartInner(g)
        \/ LoopStep(g)
        \/ LoopExit(g)
        \/ CallPos(g)

SpecConc == InitConc /\ [][NextConc]_vars

(***************************************************************************)
(* The properties.                                                         *)
(***************************************************************************)
DSEMI == <<";", ";", " ">>
INCLAUSE == <<" ", "i", "n", " ">>

\* statement s has a redirect whose operator is a here-document's
HasHeredocRedirect(s) ==
    \E k \in 1..Len(s.Redirs) : s.Redirs[k].Op \in {"HEREDOC", "DHEREDOC"}

\* the renders of statements 1..n, a newline after each statement with a
\* here-document redirect and "; " after each other one, nothing before the
\* first and nothing after the n-th
RECURSIVE Joined(_, _)
Joined(stmts, n) ==
    IF n = 0 THEN <<>>
    ELSE IF n = 1 THEN String(stmts[1])
    ELSE Joined(stmts, n - 1)
         \o (IF HasHeredocRedirect(stmts[n - 1]) THEN NL ELSE SEMI)
         \o String(stmts[n])

LastHasHeredoc(stmts) ==
    Len(stmts) > 0 /\ HasHeredocRedirect(stmts[Len(stmts)])

\* C1: in the text stmtJoinWithEnd returns, with either value of end, the
\* renders of two consecutive statements are separated by exactly one newline
\* when the first of them has a HEREDOC or DHEREDOC redirect and by exactly
\* "; " otherwise, and nothing precedes the first statement's render.
C1_Separators ==
    op = "stmtJoinWithEnd" =>
        \E tail \in {<<>>, NL} :
            out = Joined(arg.Stmts, Len(arg.Stmts)) \o tail

C1_Witness ==
    /\ op = "stmtJoinWithEnd"
    /\ Len(arg.Stmts) >= 2
    /\ arg.Stmts[1] = sDHere
    /\ arg.Stmts[2] = sCmd
    /\ out = String(sDHere) \o NL \o String(sCmd)

\* C2, as claimed: the render of a File whose last statement has a
\* here-document redirect ends with one newline appended after that
\* statement's render, and no newline is appended otherwise.
C2_Original ==
    op = "File" =>
        out = Joined(arg.Stmts, Len(arg.Stmts))
              \o (IF LastHasHeredoc(arg.Stmts) THEN NL ELSE <<>>)

\* C2, amended: File.String appends nothing after the last statement's
\* render, with or without a here-document redirect on it; the one trailing
\* newline is appended by the terminating form (end = true) only.
C2_FileAppendsNothing ==
    /\ op = "File" => out = Joined(arg.Stmts, Len(arg.Stmts))
    /\ op = "stmtJoinWithEnd" =>
          out = Joined(arg.Stmts, Len(arg.Stmts))
                \o (IF flag /\ LastHasHeredoc(arg.Stmts) THEN NL ELSE <<>>)

C2_Witness ==
    /\ op = "File"
    /\ LastHasHeredoc(arg.Stmts)
    /\ EndsWith(out, String(arg.Stmts[Len(arg.Stmts)]))
    /\ ~EndsWith(out, NL)

\* the renders of the parts of statement s that are present, in the order
\* negation, inner node, assignments, redirects, background
PresentParts(s) ==
    (IF s.Negated THEN << <<"!">> >> ELSE <<>>)
    \o (IF s.Node = NoNode THEN <<>> ELSE <<String(s.Node)>>)
    \o [i \in 1..Len(s.Assigns) |-> String(s.Assigns[i])]
    \o [i \in 1..Len(s.Redirs) |-> String(s.Redirs[i])]
    \o (IF s.Background THEN << <<"&">> >> ELSE <<>>)

\* the texts of parts, one space between each two of them
RECURSIVE Spaced(_)
Spaced(parts) ==
    IF Len(parts) = 0 THEN <<>>
    ELSE IF Len(parts) = 1 THEN parts[1]
    ELSE parts[1] \o SP \o Spaced(Tail(parts))

\* C3: the render of a Stmt is its present parts in the order "!", inner
\* node, assignments, redirects, "&", with exactly one space between two
\* consecutive parts and none before the first or after the last; a Stmt
\* with no part renders as the empty text.
C3_StmtParts ==
    op = "Stmt" => out = Spaced(PresentParts(arg))

C3_Witness ==
    /\ op = "Stmt"
    /\ arg.Negated /\ arg.Background
    /\ arg.Node = Command(<<WordA, WordA>>)
    /\ Len(arg.Assigns) >= 1 /\ Len(arg.Redirs) >= 1
    /\ StartsWith(out, <<"!", " ", "a", " ", "a", " ", "a", "=">>)
    /\ EndsWith(out, <<"a", " ", "&">>)

\* the text the terminating statement-join is to return
JoinedEnd(stmts) ==
    Joined(stmts, Len(stmts)) \o (IF LastHasHeredoc(stmts) THEN NL ELSE <<>>)

ClosedBy(t, closer) ==
    EndsWith(t, SEMI \o closer) \/ EndsWith(t, NL \o closer)

\* C4: stmtList returns "; " for no statement, and otherwise a space, the
\* terminating statement-join and then "; " exactly when the join does not
\* end in a newline; a Block of no statement renders as "{; }", and the
\* closing "}", "fi" or "done" of a Block, If, While, Until or For directly
\* follows "; " or a newline.
C4_StmtList ==
    /\ op = "stmtList" =>
          IF Len(arg.Stmts) = 0 THEN out = SEMI
          ELSE out = SP \o JoinedEnd(arg.Stmts)
                     \o (IF EndsWith(JoinedEnd(arg.Stmts), NL) THEN <<>> ELSE SEMI)
    /\ op = "Block" /\ Len(arg.Stmts) = 0 => out = <<"{", ";", " ", "}">>
    /\ op = "Block" => ClosedBy(out, <<"}">>)
    /\ op = "IfStmt" => ClosedBy(out, TokenString("FI"))
    /\ op \in {"WhileStmt", "UntilStmt", "ForStmt"} =>
          ClosedBy(out, TokenString("DONE"))

C4_Witness ==
    /\ op = "stmtList"
    /\ LastHasHeredoc(arg.Stmts)
    /\ EndsWith(out, NL)
    /\ ~EndsWith(out, SEMI)

\* C5, as claimed: the render of a CaseStmt of N >= 1 pattern lists contains
\* exactly N-1 occurrences of ";; " and ends with "; esac".
C5_Original ==
    op = "CaseStmt" /\ Len(arg.List) >= 1 =>
        /\ Count(out, DSEMI) = Len(arg.List) - 1
        /\ EndsWith(out, SEMI \o TokenString("ESAC"))

\* the occurrences of ";; " that the parts of case statement c bring along:
\* those in the render of its word and the space after it, those in the
\* renders of its pattern lists, and the one that a last pattern list ending
\* in ";" makes with the closing "; esac"
RECURSIVE OwnOccurrences(_, _)
OwnOccurrences(c, i) ==
    IF i = 0 THEN Count(String(c.Word) \o SP, DSEMI)
    ELSE OwnOccurrences(c, i - 1) + Count(String(c.List[i]), DSEMI)
         + (IF i = Len(c.List) /\ EndsWith(String(c.List[i]), <<";">>)
            THEN 1 ELSE 0)

\* C5, amended: the render of a CaseStmt of N >= 1 pattern lists ends with
\* "; esac" and contains N-1 occurrences of ";; " besides those its word and
\* its pattern lists bring along; so exactly N-1 when they bring none.
C5_CaseSeparators ==
    op = "CaseStmt" /\ Len(arg.List) >= 1 =>
        /\ EndsWith(out, SEMI \o TokenString("ESAC"))
        /\ Count(out, DSEMI) = Len(arg.List) - 1 + OwnOccurrences(arg, Len(arg.List))

C5_Witness ==
    /\ op = "CaseStmt"
    /\ Len(arg.List) >= 2
    /\ OwnOccurrences(arg, Len(arg.List)) = 0
    /\ Count(out, DSEMI) = Len(arg.List) - 1

\* the text of a for loop that has no in clause
ForForm(f) ==
    <<"f", "o", "r", " ">> \o String(f.Name) \o <<";", " ", "d", "o">>
    \o stmtList(f.DoStmts) \o <<"d", "o", "n", "e">>

\* C6, as claimed: the render of a ForStmt with an empty WordList never
\* contains " in " and is "for <name>; do", the inline list of DoStmts, "done".
C6_Original ==
    op = "ForStmt" /\ Len(arg.WordList) = 0 =>
        /\ ~Contains(out, INCLAUSE)
        /\ out = ForForm(arg)

\* C6, amended: the render of a ForStmt with an empty WordList is
\* "for <name>; do", the inline list of DoStmts, "done"; it contains " in "
\* only if the render of its name or of its DoStmts does.
C6_ForNoInClause ==
    op = "ForStmt" /\ Len(arg.WordList) = 0 =>
        /\ out = ForForm(arg)
        /\ Contains(out, INCLAUSE) =>
              \/ Contains(SP \o String(arg.Name), INCLAUSE)
              \/ Contains(stmtList(arg.DoStmts), INCLAUSE)

C6_Witness ==
    /\ op = "ForStmt"
    /\ Len(arg.WordList) = 0
    /\ Len(arg.DoStmts) > 0
    /\ ~Contains(out, INCLAUSE)
    /\ StartsWith(out, <<"f", "o", "r", " ", "i", ";", " ", "d", "o", " ">>)

\* C7: a Subshell of no statement renders as "( )"; one of statements
\* renders as "(", the terminating statement-join, ")", with no space after
\* "(" or before ")".
C7_Subshell ==
    op = "Subshell" =>
        IF Len(arg.Stmts) = 0 THEN out = <<"(", " ", ")">>
        ELSE out = <<"(">> \o JoinedEnd(arg.Stmts) \o <<")">>

C7_Witness ==
    /\ op = "Subshell"
    /\ Len(arg.Stmts) = 0
    /\ out = <<"(", " ", ")">>

\* what the calls return, whatever the other goroutine does meanwhile
ReturnsAsAlone ==
    \A g \in Goroutines :
        /\ pc[g] = "done" => ret[g] = stmtJoinWithEnd(callStmts[g], callEnd[g])
        /\ pc[g] = "pos" => ret[g] = <<Pos(callStmts[g][1], ZeroPos)>>

\* C8: however the steps of two render or Pos calls on one tree interleave,
\* each call returns what it returns when it runs alone, and no step
\* changes the tree or defaultPos.
C8_Interleaving ==
    /\ []ReturnsAsAlone
    /\ [][tree' = tree /\ defaultPos' = defaultPos]_vars

\* both renders of the same File are half-way
C8_Witness ==
    /\ pc[1] = "loop" /\ pc[2] = "loop"
    /\ callStmts[1] = tree.Stmts /\ callStmts[2] = tree.Stmts
    /\ Len(tree.Stmts) >= 2
    /\ idx[1] = 2 /\ idx[2] = 2
    /\ b[1] = String(tree.Stmts[1]) /\ b[2] = String(tree.Stmts[1])

\* the render of statement s ends with the render of a statement that has a
\* here-document redirect: s itself, or the statement at the end of its
\* inner node (the Y of a BinaryExpr, the Body of a FuncDecl) when nothing
\* of s is rendered after the inner node
RECURSIVE EndsInHeredocStmt(_)
EndsInHeredocStmt(s) ==
    \/ HasHeredocRedirect(s)
    \/ /\ Len(s.Assigns) = 0 /\ Len(s.Redirs) = 0 /\ ~s.Background
       /\ \/ s.Node.kind = "BinaryExpr" /\ EndsInHeredocStmt(s.Node.Y)
          \/ s.Node.kind = "FuncDecl" /\ EndsInHeredocStmt(s.Node.Body)

\* C10: in the render of a File, the render of a statement that has a
\* here-document redirect is never directly followed by the "; " of the
\* enclosing statement sequence, also when that statement is the Y of a
\* BinaryExpr or the Body of a FuncDecl inside a statement with no
\* here-document redirect of its own.
C10_NestedHeredoc ==
    op = "File" =>
        \A i \in 1..(Len(arg.Stmts) - 1) :
            LET before == stmtJoinWithEnd(SubSeq(arg.Stmts, 1, i), FALSE)
            IN  StartsWith(out, before) /\ EndsInHeredocStmt(arg.Stmts[i]) =>
                    ~StartsWith(SubSeq(out, Len(before) + 1, Len(out)), SEMI)

=============================================================================
